---------------------------- MODULE Spec2Model ----------------------------
(***************************************************************************)
(* Model of the two PDF generator variants of the repository:              *)
(*   variant A  src/stom PDF/generate_pdf.py  (index keyed by invoice id)  *)
(*   variant B  src/generate_pdf.py           (list based lookup)          *)
(*                                                                         *)
(* Text is a sequence of characters; a character is a one-symbol atom      *)
(* (a Cyrillic letter is written as the atom "U+04xx").  A Python value is *)
(* a record [t, s, n, d]: t is the type tag, s the text of a str, n the    *)
(* number of an int or bool, d the items of a dict or list: a sequence of  *)
(* <<key, value>> pairs in insertion order, the key of a list item being   *)
(* the empty text.                                                         *)
(***************************************************************************)
EXTENDS Integers, Sequences, FiniteSets, TLC

VARIABLES
    pc,             \* position of main() / of the function under study
    rc,             \* exit code of main(), -1 while running
    source,         \* the chosen data file: [ext, broken, doc]
    records,        \* result of the loader
    ri,             \* number of records already consumed by the index loop
    auto_i,         \* counter of _records_by_invoice_id
    by_id,          \* the index (insertion ordered dict: <<id, record>> pairs)
    assigned,       \* history: identifier given to each consumed record
    invoice_ids,    \* the identifier list offered for selection
    chosen_id,      \* the identifier picked by the user
    template_html,  \* the template text
    context,        \* the context handed to the renderer
    final_html,     \* the rendered text
    invoice_choice, \* variant B: 1-based menu position picked by the user, 0 before
    pdf             \* outcome of the document engine: "none", "failed", "opened"

vars == << pc, rc, source, records, ri, auto_i, by_id, assigned, invoice_ids,
           chosen_id, template_html, context, final_html, invoice_choice, pdf >>

-----------------------------------------------------------------------------
(* Bounds of the model                                                     *)

MaxRecords == 2     \* longest dataset drawn as input
MaxStrLen == 3      \* longest literal string drawn for the escape round trip

-----------------------------------------------------------------------------
(* Python values                                                           *)

VNull == [t |-> "null", s |-> << >>, n |-> 0, d |-> << >>]
VNaN == [t |-> "nan", s |-> << >>, n |-> 0, d |-> << >>]
VStr(s) == [t |-> "str", s |-> s, n |-> 0, d |-> << >>]
VInt(n) == [t |-> "int", s |-> << >>, n |-> n, d |-> << >>]
VBool(b) == [t |-> "bool", s |-> << >>, n |-> IF b THEN 1 ELSE 0, d |-> << >>]
VDict(pairs) == [t |-> "dict", s |-> << >>, n |-> 0, d |-> pairs]
VList(items) ==
    [t |-> "list", s |-> << >>, n |-> 0,
     d |-> [i \in 1..Len(items) |-> << << >>, items[i] >>]]

\* the items of a list value as a sequence
ListItems(v) == [i \in 1..Len(v.d) |-> v.d[i][2]]

IsDict(v) == v.t = "dict"
IsList(v) == v.t = "list"

\* bool(v): Python truthiness (a float NaN is true)
Truthy(v) ==
    CASE v.t = "null" -> FALSE
      [] v.t = "str" -> v.s # << >>
      [] v.t = "int" -> v.n # 0
      [] v.t = "bool" -> v.n = 1
      [] v.t = "nan" -> TRUE
      [] OTHER -> v.d # << >>

\* dict operations on the pair sequence of a dict
DictIndex(d, k) ==
    IF \E i \in 1..Len(d) : d[i][1] = k
    THEN CHOOSE i \in 1..Len(d) : d[i][1] = k
    ELSE 0

DictHas(d, k) == DictIndex(d, k) # 0

DictGet(d, k) == d[DictIndex(d, k)][2]

\* d[k] = v : an existing key keeps its position, a new key is appended
DictSet(d, k, v) ==
    IF DictHas(d, k)
    THEN [d EXCEPT ![DictIndex(d, k)] = << k, v >>]
    ELSE Append(d, << k, v >>)

\* d.setdefault(k, v)
DictSetDefault(d, k, v) == IF DictHas(d, k) THEN d ELSE Append(d, << k, v >>)

DictKeys(d) == [i \in 1..Len(d) |-> d[i][1]]

DictValues(d) == [i \in 1..Len(d) |-> d[i][2]]

-----------------------------------------------------------------------------
(* Text                                                                    *)

UpperChars == << "A", "B", "C", "D", "E", "F", "G", "H", "I", "J", "K", "L", "M",
                 "N", "O", "P", "Q", "R", "S", "T", "U", "V", "W", "X", "Y", "Z" >>
LowerChars == << "a", "b", "c", "d", "e", "f", "g", "h", "i", "j", "k", "l", "m",
                 "n", "o", "p", "q", "r", "s", "t", "u", "v", "w", "x", "y", "z" >>
DigitChars == << "0", "1", "2", "3", "4", "5", "6", "7", "8", "9" >>

Range(f) == { f[i] : i \in DOMAIN f }

\* str.lower() on one character
LowerChar(c) ==
    IF \E i \in 1..Len(UpperChars) : UpperChars[i] = c
    THEN LowerChars[CHOOSE i \in 1..Len(UpperChars) : UpperChars[i] = c]
    ELSE c

\* str.lower()
Lower(s) == [i \in 1..Len(s) |-> LowerChar(s[i])]

\* the characters str.strip() removes and \s matches
Whitespace == { " ", "\t", "\n", "\r", "\f" }

RECURSIVE LStrip(_)
LStrip(s) ==
    IF s # << >> /\ Head(s) \in Whitespace THEN LStrip(Tail(s)) ELSE s

RECURSIVE RStrip(_)
RStrip(s) ==
    IF s # << >> /\ s[Len(s)] \in Whitespace
    THEN RStrip(SubSeq(s, 1, Len(s) - 1))
    ELSE s

\* str.strip()
Strip(s) == RStrip(LStrip(s))

\* str(n) for a natural number
RECURSIVE NatToStr(_)
NatToStr(n) ==
    IF n < 10 THEN << DigitChars[n + 1] >>
    ELSE NatToStr(n \div 10) \o << DigitChars[(n % 10) + 1] >>

\* str(n) for an int
IntToStr(n) == IF n < 0 THEN << "-" >> \o NatToStr(0 - n) ELSE NatToStr(n)

\* repr(s) of a str: quote choice and backslash escapes
RECURSIVE ReprBody(_, _)
ReprBody(s, q) ==
    IF s = << >> THEN << >>
    ELSE LET c == Head(s)
             e == CASE c = "\\" -> << "\\", "\\" >>
                    [] c = q -> << "\\", q >>
                    [] c = "\n" -> << "\\", "n" >>
                    [] c = "\r" -> << "\\", "r" >>
                    [] c = "\t" -> << "\\", "t" >>
                    [] c = "\f" -> << "\\", "x", "0", "c" >>
                    [] OTHER -> << c >>
         IN  e \o ReprBody(Tail(s), q)

ReprStr(s) ==
    LET q == IF "'" \in Range(s) /\ ~("\"" \in Range(s)) THEN "\"" ELSE "'"
    IN  << q >> \o ReprBody(s, q) \o << q >>

RECURSIVE PyRepr(_)
RECURSIVE ReprItems(_, _)

\* the comma separated items of repr(dict) / repr(list)
ReprItems(items, isDict) ==
    IF items = << >> THEN << >>
    ELSE LET x == Head(items)
             one == IF isDict
                    THEN ReprStr(x[1]) \o << ":", " " >> \o PyRepr(x[2])
                    ELSE PyRepr(x[2])
         IN  IF Len(items) = 1 THEN one
             ELSE one \o << ",", " " >> \o ReprItems(Tail(items), isDict)

\* repr(v)
PyRepr(v) ==
    CASE v.t = "null" -> << "N", "o", "n", "e" >>
      [] v.t = "str" -> ReprStr(v.s)
      [] v.t = "int" -> IntToStr(v.n)
      [] v.t = "bool" -> IF v.n = 1 THEN << "T", "r", "u", "e" >>
                                     ELSE << "F", "a", "l", "s", "e" >>
      [] v.t = "nan" -> << "n", "a", "n" >>
      [] v.t = "dict" -> << "{" >> \o ReprItems(v.d, TRUE) \o << "}" >>
      [] OTHER -> << "[" >> \o ReprItems(v.d, FALSE) \o << "]" >>

\* str(v)
PyStr(v) == IF v.t = "str" THEN v.s ELSE PyRepr(v)

-----------------------------------------------------------------------------
(* Variant A: loaders (src/stom PDF/generate_pdf.py)                       *)

\* [x for x in items if isinstance(x, dict)]
RECURSIVE OnlyDicts(_)
OnlyDicts(items) ==
    IF items = << >> THEN << >>
    ELSE IF IsDict(Head(items)) THEN << Head(items) >> \o OnlyDicts(Tail(items))
         ELSE OnlyDicts(Tail(items))

K_invoices == << "i", "n", "v", "o", "i", "c", "e", "s" >>
K_items == << "i", "t", "e", "m", "s" >>
K_invoice_id == << "i", "n", "v", "o", "i", "c", "e", "_", "i", "d" >>
K_invoiceId == << "i", "n", "v", "o", "i", "c", "e", "I", "d" >>
K_invoice == << "i", "n", "v", "o", "i", "c", "e" >>
K_id == << "i", "d" >>
K_generated_at == << "g", "e", "n", "e", "r", "a", "t", "e", "d", "_", "a", "t" >>

\* the dict-of-dicts branch: every dict value becomes a row, the key is
\* injected as invoice_id unless the row has invoice_id, invoiceId or id
RECURSIVE DictOfDictsRows(_)
DictOfDictsRows(pairs) ==
    IF pairs = << >> THEN << >>
    ELSE LET k == Head(pairs)[1]
             v == Head(pairs)[2]
             row == IF ~DictHas(v.d, K_invoice_id) /\ ~DictHas(v.d, K_invoiceId)
                       /\ ~DictHas(v.d, K_id)
                    THEN VDict(DictSet(v.d, K_invoice_id, VStr(k)))
                    ELSE v
         IN  IF IsDict(v) THEN << row >> \o DictOfDictsRows(Tail(pairs))
             ELSE DictOfDictsRows(Tail(pairs))

\* _load_json_records on the parsed document: [ok, rows]; ok = FALSE is the
\* ValueError
_load_json_records(data) ==
    IF IsList(data) THEN [ok |-> TRUE, rows |-> OnlyDicts(ListItems(data))]
    ELSE IF IsDict(data) /\ DictHas(data.d, K_invoices)
            /\ IsList(DictGet(data.d, K_invoices))
         THEN [ok |-> TRUE, rows |-> OnlyDicts(ListItems(DictGet(data.d, K_invoices)))]
         ELSE IF IsDict(data) /\ DictOfDictsRows(data.d) # << >>
              THEN [ok |-> TRUE, rows |-> DictOfDictsRows(data.d)]
              ELSE [ok |-> FALSE, rows |-> << >>]

\* _load_csv_records: the rows exactly as the reader (pandas or
\* csv.DictReader) hands them over
_load_csv_records(src) == [ok |-> TRUE, rows |-> ListItems(src.doc)]

\* _load_records: dispatch on the extension; an unreadable or unparseable
\* file raises inside the reader
_load_records(src) ==
    IF src.broken THEN [ok |-> FALSE, rows |-> << >>]
    ELSE IF src.ext = "csv" THEN _load_csv_records(src)
         ELSE IF src.ext = "json" THEN _load_json_records(src.doc)
              ELSE [ok |-> FALSE, rows |-> << >>]

-----------------------------------------------------------------------------
(* Variant A: identifier resolution and index                              *)

INVOICE_ID_CANDIDATES ==
    << K_invoice_id,
       K_invoiceId,
       << "i", "n", "v", "o", "i", "c", "e", " ", "i", "d" >>,
       K_invoice,
       << "I", "n", "v", "o", "i", "c", "e", "I", "d" >>,
       << "I", "n", "v", "o", "i", "c", "e", "I", "D" >>,
       K_id,
       << "I", "d" >>,
       << "I", "D" >> >>

NanText == << "n", "a", "n" >>

\* the body of the candidate loop for one candidate: the identifier text it
\* yields, or None (VNull) when the loop goes on
CandidateValue(record, k) ==
    IF DictHas(record.d, k) /\ DictGet(record.d, k).t # "null"
    THEN LET s == Strip(PyStr(DictGet(record.d, k)))
         IN  IF s # << >> /\ Lower(s) # NanText THEN VStr(s) ELSE VNull
    ELSE VNull

RECURSIVE ExtractFrom(_, _)
ExtractFrom(record, i) ==
    IF i > Len(INVOICE_ID_CANDIDATES) THEN VNull
    ELSE IF CandidateValue(record, INVOICE_ID_CANDIDATES[i]) # VNull
         THEN CandidateValue(record, INVOICE_ID_CANDIDATES[i])
         ELSE ExtractFrom(record, i + 1)

\* _extract_invoice_id(record): VStr(s) or VNull (None)
_extract_invoice_id(record) == ExtractFrom(record, 1)

AutoPrefix == << "A", "U", "T", "O", "-" >>

\* AssignInv with the counter advanced for every record
AssignInvEveryRecord(inv, auto) ==
    IF ~Truthy(inv)
    THEN [inv |-> AutoPrefix \o IntToStr(auto), auto |-> auto + 1]
    ELSE [inv |-> inv.s, auto |-> auto + 1]

\* lines 191-193: the identifier of the record and the counter after it
AssignInv(inv, auto) ==
    IF ~Truthy(inv)
    THEN [inv |-> AutoPrefix \o IntToStr(auto), auto |-> auto + 1]
    ELSE [inv |-> inv.s, auto |-> auto]

\* IndexPut that keeps the record an identifier already has (first wins)
IndexPutFirstWins(out, inv, r) == DictSetDefault(out, inv, r)

\* line 195: out[inv] = r
IndexPut(out, inv, r) == DictSet(out, inv, r)

\* one iteration of the loop of _records_by_invoice_id
IndexStep(out, auto, r) ==
    IF ~IsDict(r) THEN [out |-> out, auto |-> auto, inv |-> << >>]
    ELSE LET a == AssignInv(_extract_invoice_id(r), auto)
         IN  [out |-> IndexPut(out, a.inv, r), auto |-> a.auto, inv |-> a.inv]

RECURSIVE IndexLoop(_, _, _)
IndexLoop(out, auto, rs) ==
    IF rs = << >> THEN out
    ELSE LET st == IndexStep(out, auto, Head(rs))
         IN  IndexLoop(st.out, st.auto, Tail(rs))

\* _records_by_invoice_id(records) as a whole
_records_by_invoice_id(rs) == IndexLoop(<< >>, 1, rs)

-----------------------------------------------------------------------------
(* Variant A: template renderer                                            *)

\* the character class [a-zA-Z0-9_.-] of _TPL_VAR_RE
IsNameChar(c) ==
    \/ c \in Range(UpperChars)
    \/ c \in Range(LowerChars)
    \/ c \in Range(DigitChars)
    \/ c \in { "_", ".", "-" }

\* first position >= p of t that holds no whitespace (\s*, greedy)
RECURSIVE SkipSpace(_, _)
SkipSpace(t, p) ==
    IF p <= Len(t) /\ t[p] \in Whitespace THEN SkipSpace(t, p + 1) ELSE p

\* first position >= p of t that holds no name character ([...]+, greedy)
RECURSIVE SkipName(_, _)
SkipName(t, p) ==
    IF p <= Len(t) /\ IsNameChar(t[p]) THEN SkipName(t, p + 1) ELSE p

\* _TPL_VAR_RE.match at position p: [ok, key, next]; the three classes
\* (whitespace, name characters, braces) are disjoint, so the greedy match
\* is the only one
MatchAt(t, p) ==
    LET q == SkipSpace(t, p + 2)
        r == SkipName(t, q)
        u == SkipSpace(t, r)
    IN  IF /\ p + 1 <= Len(t) /\ t[p] = "{" /\ t[p + 1] = "{"
           /\ r > q
           /\ u + 1 <= Len(t) /\ t[u] = "}" /\ t[u + 1] = "}"
        THEN [ok |-> TRUE, key |-> SubSeq(t, q, r - 1), next |-> u + 2]
        ELSE [ok |-> FALSE, key |-> << >>, next |-> p + 1]

\* dotted_key.split(".")
RECURSIVE Split(_, _)
Split(s, cur) ==
    IF s = << >> THEN << cur >>
    ELSE IF Head(s) = "." THEN << cur >> \o Split(Tail(s), << >>)
         ELSE Split(Tail(s), Append(cur, Head(s)))

\* Walk that stops at a value that is no mapping and returns it
RECURSIVE WalkKeepLast(_, _)
WalkKeepLast(cur, parts) ==
    IF parts = << >> THEN cur
    ELSE IF IsDict(cur) /\ DictHas(cur.d, Head(parts))
         THEN WalkKeepLast(DictGet(cur.d, Head(parts)), Tail(parts))
         ELSE IF IsDict(cur) THEN VNull ELSE cur

\* the loop of _get_nested; VNull is the early return None
RECURSIVE Walk(_, _)
Walk(cur, parts) ==
    IF parts = << >> THEN cur
    ELSE IF IsDict(cur) /\ DictHas(cur.d, Head(parts))
         THEN Walk(DictGet(cur.d, Head(parts)), Tail(parts))
         ELSE VNull

\* _get_nested(data, dotted_key)
_get_nested(data, dotted_key) == Walk(data, Split(dotted_key, << >>))

\* html.escape on one character with quote=False
EscapeCharNoQuote(c) ==
    CASE c = "&" -> << "&", "a", "m", "p", ";" >>
      [] c = "<" -> << "&", "l", "t", ";" >>
      [] c = ">" -> << "&", "g", "t", ";" >>
      [] OTHER -> << c >>

\* html.escape on one character (quote=True)
EscapeChar(c) ==
    CASE c = "&" -> << "&", "a", "m", "p", ";" >>
      [] c = "<" -> << "&", "l", "t", ";" >>
      [] c = ">" -> << "&", "g", "t", ";" >>
      [] c = "\"" -> << "&", "q", "u", "o", "t", ";" >>
      [] c = "'" -> << "&", "#", "x", "2", "7", ";" >>
      [] OTHER -> << c >>

\* html.escape(s)
RECURSIVE escape(_)
escape(s) == IF s = << >> THEN << >> ELSE EscapeChar(Head(s)) \o escape(Tail(s))

\* repl(m): the text that replaces the token with the given key
repl(ctx, key) ==
    LET val == _get_nested(ctx, key)
    IN  IF val.t = "null" THEN << >>
        ELSE IF Lower(PyStr(val)) = NanText THEN << >>
             ELSE escape(PyStr(val))

\* _TPL_VAR_RE.sub(repl, t) from position p on: one pass over the template
RECURSIVE SubFrom(_, _, _)
SubFrom(t, ctx, p) ==
    IF p > Len(t) THEN << >>
    ELSE LET m == MatchAt(t, p)
         IN  IF m.ok THEN repl(ctx, m.key) \o SubFrom(t, ctx, m.next)
             ELSE << t[p] >> \o SubFrom(t, ctx, p + 1)

\* a renderer that scans its own output once more
RenderRescan(t, ctx) == SubFrom(SubFrom(t, ctx, 1), ctx, 1)

\* render_html_template(template_html, context)
render_html_template(t, ctx) == SubFrom(t, ctx, 1)

-----------------------------------------------------------------------------
(* Variant A: main()                                                        *)

\* code point of a character, for the comparison of str
CodeTable ==
    << " ", "!", "\"", "#", "$", "%", "&", "'", "(", ")", "*", "+", ",", "-", ".",
       "/", "0", "1", "2", "3", "4", "5", "6", "7", "8", "9", ":", ";", "<", "=",
       ">", "?", "@", "A", "B", "C", "D", "E", "F", "G", "H", "I", "J", "K", "L",
       "M", "N", "O", "P", "Q", "R", "S", "T", "U", "V", "W", "X", "Y", "Z", "[",
       "\\", "]", "^", "_", "U+0060", "a", "b", "c", "d", "e", "f", "g", "h", "i", "j",
       "k", "l", "m", "n", "o", "p", "q", "r", "s", "t", "u", "v", "w", "x", "y",
       "z", "{", "|", "}", "~" >>

Ord(c) ==
    CASE c = "\t" -> 9
      [] c = "\n" -> 10
      [] c = "\f" -> 12
      [] c = "\r" -> 13
      [] \E i \in 1..Len(CodeTable) : CodeTable[i] = c ->
            31 + (CHOOSE i \in 1..Len(CodeTable) : CodeTable[i] = c)
      [] OTHER -> 1024

\* a < b for str (lexicographic by code point)
RECURSIVE StrLess(_, _)
StrLess(a, b) ==
    IF b = << >> THEN FALSE
    ELSE IF a = << >> THEN TRUE
         ELSE IF Ord(Head(a)) # Ord(Head(b)) THEN Ord(Head(a)) < Ord(Head(b))
              ELSE StrLess(Tail(a), Tail(b))

\* InsertByLower that compares the texts as they are (case-sensitive sort)
RECURSIVE InsertByText(_, _)
InsertByText(sorted, x) ==
    IF sorted = << >> THEN << x >>
    ELSE IF StrLess(x, Head(sorted))
         THEN << x >> \o sorted
         ELSE << Head(sorted) >> \o InsertByText(Tail(sorted), x)

\* insertion of x behind every element whose key is not greater (stable)
RECURSIVE InsertByLower(_, _)
InsertByLower(sorted, x) ==
    IF sorted = << >> THEN << x >>
    ELSE IF StrLess(Lower(x), Lower(Head(sorted)))
         THEN << x >> \o sorted
         ELSE << Head(sorted) >> \o InsertByLower(Tail(sorted), x)

RECURSIVE SortFrom(_, _)
SortFrom(sorted, rest) ==
    IF rest = << >> THEN sorted
    ELSE SortFrom(InsertByLower(sorted, Head(rest)), Tail(rest))

\* sorted(keys, key=lambda x: x.lower())
SortedByLower(keys) == SortFrom(<< >>, keys)

\* AssembleContext with invoice_id assigned instead of defaulted
AssembleContextOverwrite(record, chosen, now) ==
    [context |-> VDict(DictSetDefault(
                    DictSet(record.d, K_invoice_id, VStr(chosen)),
                    K_generated_at, VStr(now))),
     record |-> record]

\* lines 392-394: [context, record]: the context built for the renderer and
\* the record object as it is afterwards (dict(record) is a copy, so the
\* record stays as it was)
AssembleContext(record, chosen, now) ==
    [context |-> VDict(DictSetDefault(
                    DictSetDefault(record.d, K_invoice_id, VStr(chosen)),
                    K_generated_at, VStr(now))),
     record |-> record]

-----------------------------------------------------------------------------
(* Inputs: the data files and templates a run can meet                     *)

K_name == << "n", "a", "m", "e" >>
K_amt == << "a", "m", "t" >>
K_total == << "t", "o", "t", "a", "l" >>
K_INVOICE_ID == << "I", "N", "V", "O", "I", "C", "E", "_", "I", "D" >>

RecA5 == VDict(<< << K_id, VStr(<< "A" >>) >>, << K_amt, VInt(5) >> >>)
RecA9 == VDict(<< << K_id, VStr(<< "A" >>) >>, << K_amt, VInt(9) >> >>)
RecX == VDict(<< << K_name, VStr(<< "X" >>) >> >>)
RecY == VDict(<< << K_name, VStr(<< "Y" >>) >> >>)
RecAuto == VDict(<< << K_id, VStr(<< "A", "U", "T", "O", "-", "1" >>) >> >>)
RecZ1 == VDict(<< << K_invoice, VStr(<< "Z", "1" >>) >>, << K_total, VInt(100) >> >>)
RecPad == VDict(<< << K_invoice_id, VStr(<< " ", "B", " " >>) >>,
                   << K_id, VStr(<< "A" >>) >> >>)
RecNan == VDict(<< << K_invoice_id, VNaN >>, << K_id, VStr(<< "a" >>) >>,
                   << K_generated_at, VStr(<< "G" >>) >> >>)
RecCase == VDict(<< << K_INVOICE_ID, VStr(<< "C" >>) >> >>)
RecEmpty == VDict(<< >>)

\* the rows a tabular or hierarchical source can hold
RecordPool ==
    { RecA5, RecA9, RecX, RecY, RecAuto, RecZ1, RecPad, RecNan, RecCase, RecEmpty }

\* the entries of a JSON sequence: objects and a scalar
ItemPool == RecordPool \cup { VInt(3) }

SeqsUpTo(S, n) == UNION { [1..m -> S] : m \in 0..n }

\* key of the i-th entry of a dictionary keyed by external identifier
ExternalKey(i) == << "K" >> \o IntToStr(i)

JsonFile(doc) == [ext |-> "json", broken |-> FALSE, doc |-> doc]

JsonSources ==
    { JsonFile(VList(x)) : x \in SeqsUpTo(ItemPool, MaxRecords) }
    \cup { JsonFile(VDict(<< << K_invoices, VList(x) >> >>)) :
              x \in SeqsUpTo(ItemPool, MaxRecords) }
    \cup { JsonFile(VDict(<< << K_items, VList(x) >> >>)) :
              x \in SeqsUpTo(ItemPool, MaxRecords) }
    \cup { JsonFile(VDict([i \in 1..Len(x) |-> << ExternalKey(i), x[i] >>])) :
              x \in SeqsUpTo(ItemPool, MaxRecords) }
    \cup { JsonFile(VInt(7)), JsonFile(VNull) }

CsvSources ==
    { [ext |-> "csv", broken |-> FALSE, doc |-> VList(x)] :
         x \in SeqsUpTo(RecordPool \ { RecEmpty }, MaxRecords) }

BrokenSources ==
    { [ext |-> "json", broken |-> TRUE, doc |-> VNull],
      [ext |-> "csv", broken |-> TRUE, doc |-> VNull] }

Sources == JsonSources \cup CsvSources \cup BrokenSources

NoSource == [ext |-> "none", broken |-> FALSE, doc |-> VNull]

Tpl_fields ==
    << "{", "{", "i", "n", "v", "o", "i", "c", "e", "_", "i", "d", "}", "}", "/",
       "{", "{", " ", "g", "e", "n", "e", "r", "a", "t", "e", "d", "_", "a", "t",
       " ", "}", "}", "/", "{", "{", "a", "m", "t", "}", "}" >>
Tpl_plain == << "<", "p", ">" >>

PipelineTemplates == { Tpl_fields, Tpl_plain }

\* datetime.now().strftime(...)
Timestamps == { << "2", "0", "2", "6", "-", "1", "1", "-", "0", "2" >> }

-----------------------------------------------------------------------------
(* Variant A: main() as a state machine                                    *)

Init ==
    /\ pc = "start"
    /\ rc = -1
    /\ source = NoSource
    /\ records = << >>
    /\ ri = 0
    /\ auto_i = 1
    /\ by_id = << >>
    /\ assigned = << >>
    /\ invoice_ids = << >>
    /\ chosen_id = << >>
    /\ template_html = << >>
    /\ context = VNull
    /\ final_html = << >>
    /\ invoice_choice = 0
    /\ pdf = "none"

\* lines 331-366: no data file or no template ends the run with 2,
\* otherwise the user picks a data file
ScanFiles ==
    /\ pc = "start"
    /\ \E found \in BOOLEAN :
          IF found
          THEN \E src \in Sources : source' = src /\ pc' = "load" /\ rc' = rc
          ELSE source' = source /\ pc' = "done" /\ rc' = 2
    /\ UNCHANGED << records, ri, auto_i, by_id, assigned, invoice_ids, chosen_id,
                    template_html, context, final_html,
                    invoice_choice, pdf >>

\* lines 372-376
LoadRecords ==
    /\ pc = "load"
    /\ LET r == _load_records(source)
       IN  IF r.ok
           THEN records' = r.rows /\ pc' = "index" /\ rc' = rc
           ELSE records' = records /\ pc' = "done" /\ rc' = 3
    /\ UNCHANGED << source, ri, auto_i, by_id, assigned, invoice_ids, chosen_id,
                    template_html, context, final_html,
                    invoice_choice, pdf >>

\* line 378: one iteration of the loop of _records_by_invoice_id
IndexRecord ==
    /\ pc = "index"
    /\ ri < Len(records)
    /\ LET st == IndexStep(by_id, auto_i, records[ri + 1])
       IN  /\ by_id' = st.out
           /\ auto_i' = st.auto
           /\ assigned' = Append(assigned, st.inv)
    /\ ri' = ri + 1
    /\ UNCHANGED << pc, rc, source, records, invoice_ids, chosen_id,
                    template_html, context, final_html,
                    invoice_choice, pdf >>

\* lines 379-384: the loop is over; the sorted identifier list, 4 if empty
ListIds ==
    /\ pc = "index"
    /\ ri = Len(records)
    /\ invoice_ids' = SortedByLower(DictKeys(by_id))
    /\ IF DictKeys(by_id) = << >>
       THEN pc' = "done" /\ rc' = 4
       ELSE pc' = "choose_id" /\ rc' = rc
    /\ UNCHANGED << source, records, ri, auto_i, by_id, assigned, chosen_id,
                    template_html, context, final_html,
                    invoice_choice, pdf >>

\* lines 386-387
ChooseId ==
    /\ pc = "choose_id"
    /\ \E i \in 1..Len(invoice_ids) : chosen_id' = invoice_ids[i]
    /\ pc' = "generate"
    /\ UNCHANGED << rc, source, records, ri, auto_i, by_id, assigned, invoice_ids,
                    template_html, context, final_html,
                    invoice_choice, pdf >>

\* lines 390-396
Generate ==
    /\ pc = "generate"
    /\ \E t \in PipelineTemplates, now \in Timestamps :
          LET a == AssembleContext(DictGet(by_id, chosen_id), chosen_id, now)
          IN  /\ template_html' = t
              /\ context' = a.context
              /\ by_id' = DictSet(by_id, chosen_id, a.record)
              /\ final_html' = render_html_template(t, a.context)
    /\ pc' = "write"
    /\ UNCHANGED << rc, source, records, ri, auto_i, assigned, invoice_ids,
                    chosen_id,
                    invoice_choice, pdf >>

\* line 390: _read_text raises on a template that cannot be read or decoded;
\* main has no handler for it, so the interpreter ends the run with status 1
TemplateUnreadable ==
    /\ pc = "generate"
    /\ pc' = "done"
    /\ rc' = 1
    /\ UNCHANGED << source, records, ri, auto_i, by_id, assigned, invoice_ids,
                    chosen_id, template_html, context, final_html,
                    invoice_choice, pdf >>

\* lines 411-421: the document engine succeeds, the result is opened and the
\* run ends with 0, or the engine raises and the run ends with 5
WritePdf ==
    /\ pc = "write"
    /\ \E ok \in BOOLEAN :
          /\ rc' = IF ok THEN 0 ELSE 5
          /\ pdf' = IF ok THEN "opened" ELSE "failed"
    /\ pc' = "done"
    /\ UNCHANGED << source, records, ri, auto_i, by_id, assigned, invoice_ids,
                    chosen_id, template_html, context, final_html,
                    invoice_choice >>

Next ==
    \/ ScanFiles
    \/ LoadRecords
    \/ IndexRecord
    \/ ListIds
    \/ ChooseId
    \/ Generate
    \/ TemplateUnreadable
    \/ WritePdf

Spec == Init /\ [][Next]_vars

-----------------------------------------------------------------------------
(* The renderer on its own: render_html_template(template, context)        *)

K_k == << "k" >>
K_o == << "o" >>
K_a == << "a" >>
K_b == << "b" >>
K_c == << "c" >>
K_x == << "x" >>

Tpl_k == << "{", "{", "k", "}", "}" >>
Tpl_abc == << "{", "{", "a", ".", "b", ".", "c", "}", "}" >>
Tpl_abc_spaced == << "{", "{", " ", "a", ".", "b", ".", "c", "\t", "}", "}" >>
Tpl_ab == << "{", "{", "a", ".", "b", "}", "}" >>
Tpl_a == << "{", "{", "a", "}", "}" >>
Tpl_mixed == << "x", "{", "{", "k", "}", "}", "{", "{", " ", "o", "}", "}", "<" >>
Tpl_no_token == << "a", "{", "b", "}", "{", "{", "}", "}" >>

RenderTemplates ==
    { Tpl_k, Tpl_abc, Tpl_abc_spaced, Tpl_ab, Tpl_a, Tpl_mixed, Tpl_no_token }

\* the characters html.escape rewrites, and the letters of "nan"
EscapeAlphabet == { "&", "<", ">", "\"", "'", "n", "a", "N" }

LiteralStrings == SeqsUpTo(EscapeAlphabet, MaxStrLen)

Placeholder_o == << "{", "{", "o", "}", "}" >>
Placeholder_k == << "{", "{", " ", "k", " ", "}", "}" >>

\* values found at the end of a dotted path
Leaves ==
    { VNull, VNaN, VInt(5), VBool(TRUE),
      VStr(<< >>), VStr(<< "v", "&" >>), VStr(<< "N", "a", "N" >>),
      VDict(<< << K_c, VStr(<< "x", "'" >>) >> >>),
      VList(<< VInt(1), VStr(<< "<" >>) >>) }

FlatContexts == { VDict(<< << K_k, VStr(s) >> >>) : s \in LiteralStrings }

PlaceholderContexts ==
    { VDict(<< << K_k, VStr(p) >>, << K_o, w >> >>) :
         p \in { Placeholder_o, Placeholder_k },
         w \in { VStr(<< "W" >>), VStr(<< "<" >>), VNull } }

NestedContexts ==
    { VDict(<< >>) }
    \cup { VDict(<< << K_a, l >> >>) : l \in Leaves }
    \cup { VDict(<< << K_a, VDict(<< << K_b, l >> >>) >> >>) : l \in Leaves }
    \cup { VDict(<< << K_a, VDict(<< << K_x, l >> >>) >> >>) : l \in Leaves }
    \cup { VDict(<< << K_a, VDict(<< << K_b, VDict(<< << K_c, l >> >>) >> >>) >> >>) :
              l \in Leaves }

RenderContexts == FlatContexts \cup PlaceholderContexts \cup NestedContexts

InitRender ==
    /\ pc = "r_start"
    /\ rc = -1
    /\ source = NoSource
    /\ records = << >>
    /\ ri = 0
    /\ auto_i = 1
    /\ by_id = << >>
    /\ assigned = << >>
    /\ invoice_ids = << >>
    /\ chosen_id = << >>
    /\ template_html \in RenderTemplates
    /\ context \in RenderContexts
    /\ final_html = << >>
    /\ invoice_choice = 0
    /\ pdf = "none"

\* line 396
RenderTemplate ==
    /\ pc = "r_start"
    /\ final_html' = render_html_template(template_html, context)
    /\ pc' = "r_done"
    /\ UNCHANGED << rc, source, records, ri, auto_i, by_id, assigned, invoice_ids,
                    chosen_id, template_html, context,
                    invoice_choice, pdf >>

NextRender == RenderTemplate

SpecRender == InitRender /\ [][NextRender]_vars

-----------------------------------------------------------------------------
(* Variant B: src/generate_pdf.py                                          *)

possible_keys ==
    << K_invoice_id,
       K_invoiceId,
       << "i", "n", "v", "o", "i", "c", "e", "-", "i", "d" >>,
       K_invoice,
       K_id,
       << "i", "n", "v", "o", "i", "c", "e", "_", "n", "u", "m", "b", "e", "r" >>,
       << "i", "n", "v", "o", "i", "c", "e", "N", "u", "m", "b", "e", "r" >>,
       << "U+043D", "U+043E", "U+043C", "U+0435", "U+0440" >>,
       << "U+043D", "U+043E", "U+043C", "U+0435", "U+0440", "_",
          "U+0441", "U+0447", "U+0435", "U+0442", "U+0430" >>,
       << "U+0441", "U+0447", "U+0435", "U+0442" >>,
       << "c", "h", "e", "c", "k", "_", "i", "d" >>,
       << "c", "h", "e", "c", "k", "I", "d" >>,
       << "c", "h", "e", "c", "k", "-", "i", "d" >> >>

\* read_json_file on the parsed document (a file that cannot be read or
\* parsed gives [])
read_json_file(src) ==
    IF src.broken THEN << >>
    ELSE IF IsDict(src.doc)
         THEN IF \E i \in 1..Len(src.doc.d) : IsList(src.doc.d[i][2])
              THEN ListItems(src.doc.d[CHOOSE i \in 1..Len(src.doc.d) :
                                /\ IsList(src.doc.d[i][2])
                                /\ \A m \in 1..(i - 1) : ~IsList(src.doc.d[m][2])][2])
              ELSE << src.doc >>
         ELSE IF IsList(src.doc) THEN ListItems(src.doc)
              ELSE << src.doc >>

\* lines 278-283: position of the first key of item equal to key without
\* regard to case, 0 if there is none
ActualKey(item, key) ==
    IF \E i \in 1..Len(item.d) : Lower(item.d[i][1]) = Lower(key)
    THEN CHOOSE i \in 1..Len(item.d) :
            /\ Lower(item.d[i][1]) = Lower(key)
            /\ \A m \in 1..(i - 1) : Lower(item.d[m][1]) # Lower(key)
    ELSE 0

\* lines 277-285: the loop over possible_keys from the i-th key on, cur being
\* the value of invoice_id so far
RECURSIVE KeyLoop(_, _, _)
KeyLoop(item, i, cur) ==
    IF i > Len(possible_keys) THEN cur
    ELSE IF ActualKey(item, possible_keys[i]) # 0
         THEN LET v == item.d[ActualKey(item, possible_keys[i])][2]
              IN  IF Truthy(v) THEN v ELSE KeyLoop(item, i + 1, v)
         ELSE KeyLoop(item, i + 1, cur)

\* lines 273-296: the identifier text of the item at 0-based position idx
ItemId(item, idx) ==
    LET found == IF IsDict(item) THEN KeyLoop(item, 1, VNull) ELSE VNull
        invoice_id ==
            IF IsDict(item)
            THEN IF ~Truthy(found)
                 THEN IF Truthy(item) THEN DictValues(item.d)[1] ELSE VInt(idx + 1)
                 ELSE found
            ELSE VInt(idx + 1)
    IN  IF invoice_id.t # "null" THEN PyStr(invoice_id) ELSE IntToStr(idx + 1)

\* get_invoice_ids(data)
get_invoice_ids(data) == [i \in 1..Len(data) |-> ItemId(data[i], i - 1)]

\* a == b of Python on two distinct objects: dicts compare without regard to
\* the order of their keys, True equals 1, a float NaN equals nothing
RECURSIVE PyEq(_, _)
PyEq(a, b) ==
    IF a.t = "nan" \/ b.t = "nan" THEN FALSE
    ELSE IF a.t \in { "int", "bool" } /\ b.t \in { "int", "bool" } THEN a.n = b.n
    ELSE IF a.t = "dict" /\ b.t = "dict"
         THEN /\ Len(a.d) = Len(b.d)
              /\ \A i \in 1..Len(a.d) :
                    /\ DictHas(b.d, a.d[i][1])
                    /\ PyEq(a.d[i][2], DictGet(b.d, a.d[i][1]))
    ELSE IF a.t = "list" /\ b.t = "list"
         THEN /\ Len(a.d) = Len(b.d)
              /\ \A i \in 1..Len(a.d) : PyEq(a.d[i][2], b.d[i][2])
    ELSE a = b

\* data.index(data[i]) + 1: the first position that holds the item itself
\* or an item equal to it
ItemIndex(data, i) ==
    CHOOSE m \in 1..i :
        /\ m = i \/ PyEq(data[m], data[i])
        /\ \A n \in 1..(m - 1) : ~PyEq(data[n], data[i])

\* lines 319-329, the body of the loop of the except branch for the i-th
\* item: a field named by possible_keys holds the identifier, or the
\* position of the item is the identifier
ItemMatches(data, i, id) ==
    \/ /\ IsDict(data[i])
       /\ \E k \in 1..Len(possible_keys), j \in 1..Len(data[i].d) :
             /\ Lower(data[i].d[j][1]) = Lower(possible_keys[k])
             /\ PyStr(data[i].d[j][2]) = id
    \/ IntToStr(ItemIndex(data, i)) = id

\* find_invoice_by_id that returns the last item with the identifier
FindLastWins(data, invoice_id) ==
    LET ids == get_invoice_ids(data)
    IN  IF \E i \in 1..Len(ids) : ids[i] = invoice_id
        THEN data[CHOOSE i \in 1..Len(ids) :
                     /\ ids[i] = invoice_id
                     /\ \A m \in (i + 1)..Len(ids) : ids[m] # invoice_id]
        ELSE IF \E i \in 1..Len(data) : ItemMatches(data, i, invoice_id)
             THEN data[CHOOSE i \in 1..Len(data) :
                          /\ ItemMatches(data, i, invoice_id)
                          /\ \A m \in 1..(i - 1) : ~ItemMatches(data, m, invoice_id)]
             ELSE VNull

\* find_invoice_by_id(data, invoice_id): data[invoice_ids.index(invoice_id)],
\* the first position of the identifier in get_invoice_ids(data)
find_invoice_by_id(data, invoice_id) ==
    LET ids == get_invoice_ids(data)
    IN  IF \E i \in 1..Len(ids) : ids[i] = invoice_id
        THEN data[CHOOSE i \in 1..Len(ids) :
                     /\ ids[i] = invoice_id
                     /\ \A m \in 1..(i - 1) : ids[m] # invoice_id]
        ELSE IF \E i \in 1..Len(data) : ItemMatches(data, i, invoice_id)
             THEN data[CHOOSE i \in 1..Len(data) :
                          /\ ItemMatches(data, i, invoice_id)
                          /\ \A m \in 1..(i - 1) : ~ItemMatches(data, m, invoice_id)]
             ELSE VNull

-----------------------------------------------------------------------------
(* Variant B: read_csv_file, the reader of the standard library            *)
(*                                                                         *)
(* A CSV file is the header line and a sequence of blocks; a block is the  *)
(* data rows the text layer decodes in one read (the header line belongs   *)
(* to the first block).  A data row is written as a dict of its two        *)
(* readings: "utf8" is the row as UTF-8 decodes its bytes, "cp" the row as *)
(* code page 1251 decodes them, None where the bytes do not decode.  The   *)
(* file is written as the dict {"sniffable": bool, "blocks": [[row]]},     *)
(* sniffable telling whether csv.Sniffer finds a delimiter in the sample.  *)
(* The files have no byte order mark, so "utf-8-sig" and "utf-8" read      *)
(* alike.                                                                  *)

K_utf8 == << "u", "t", "f", "8" >>
K_cp == << "c", "p" >>
K_sniffable == << "s", "n", "i", "f", "f", "a", "b", "l", "e" >>
K_blocks == << "b", "l", "o", "c", "k", "s" >>

\* line 211
encodings == << "utf-8-sig", "utf-8", "cp1251", "windows-1251" >>

CsvBlocks(src) ==
    [i \in 1..Len(DictGet(src.doc.d, K_blocks).d) |->
        ListItems(ListItems(DictGet(src.doc.d, K_blocks))[i])]

CsvSniffable(src) == Truthy(DictGet(src.doc.d, K_sniffable))

\* the row as the codec of the encoding decodes it, None on a decoding error
Decoded(row, enc) ==
    IF enc \in { "utf-8-sig", "utf-8" } THEN DictGet(row.d, K_utf8)
    ELSE DictGet(row.d, K_cp)

\* the text layer decodes a whole block or raises UnicodeDecodeError
BlockDecodes(block, enc) ==
    \A i \in 1..Len(block) : Decoded(block[i], enc).t # "null"

\* line 221: {k.strip(): v for k, v in row.items()}
RECURSIVE CleanedPairs(_, _)
CleanedPairs(pairs, acc) ==
    IF pairs = << >> THEN acc
    ELSE CleanedPairs(Tail(pairs), DictSet(acc, Strip(Head(pairs)[1]), Head(pairs)[2]))

cleaned_row(row) == VDict(CleanedPairs(row.d, << >>))

\* lines 219-222: the reader loop over the blocks still to read; rows is the
\* list the loop appends to
RECURSIVE ReaderLoop(_, _, _)
ReaderLoop(blocks, enc, rows) ==
    IF blocks = << >> THEN [status |-> "ok", rows |-> rows]
    ELSE IF ~BlockDecodes(Head(blocks), enc)
         THEN [status |-> "decode", rows |-> rows]
         ELSE ReaderLoop(Tail(blocks), enc,
                  rows \o [i \in 1..Len(Head(blocks)) |->
                              cleaned_row(Decoded(Head(blocks)[i], enc))])

\* lines 212-225, one attempt: the sample read decodes the first block, the
\* sniffer raises csv.Error on a sample without delimiter, then the reader
\* loop runs
Attempt(src, enc, rows) ==
    IF ~BlockDecodes(CsvBlocks(src)[1], enc) THEN [status |-> "decode", rows |-> rows]
    ELSE IF ~CsvSniffable(src) THEN [status |-> "error", rows |-> rows]
         ELSE ReaderLoop(CsvBlocks(src), enc, rows)

\* lines 209-230: the loop over the encodings from the i-th on; rows is
\* created once before the loop (line 209) and never emptied
RECURSIVE EncodingLoop(_, _, _)
EncodingLoop(src, i, rows) ==
    IF i > Len(encodings) THEN rows
    ELSE LET a == Attempt(src, encodings[i], rows)
         IN  IF a.status = "ok" THEN a.rows
             ELSE IF a.status = "error" THEN << >>
                  ELSE EncodingLoop(src, i + 1, a.rows)

\* read_csv_file(file_path) when pandas is not installed or has raised; a
\* file that cannot be opened gives []
read_csv_file(src) ==
    IF src.broken THEN << >> ELSE EncodingLoop(src, 1, << >>)

-----------------------------------------------------------------------------
(* Variant B: the CSV files a run can meet                                 *)

K_id_sp == << " ", "i", "d" >>

CsvRow(u, c) == VDict(<< << K_utf8, u >>, << K_cp, c >> >>)
Cells(text) == VDict(<< << K_id_sp, VStr(text) >> >>)

\* rows of ASCII text read alike under every encoding
RowA == CsvRow(Cells(<< "A" >>), Cells(<< "A" >>))
RowB == CsvRow(Cells(<< "B" >>), Cells(<< "B" >>))
\* a Cyrillic letter stored in code page 1251 is no valid UTF-8
RowCp == CsvRow(VNull, Cells(<< "U+042F" >>))
\* the same letter stored in UTF-8 reads as two other letters in the code page
RowUtf == CsvRow(Cells(<< "U+042F" >>), Cells(<< "U+0420", "U+0407" >>))
\* bytes no encoding of the list decodes
RowBad == CsvRow(VNull, VNull)

BlockPool ==
    { << >>, << RowA >>, << RowB >>, << RowA, RowB >>, << RowCp >>,
      << RowA, RowCp >>, << RowUtf >>, << RowBad >> }

MaxBlocks == 2      \* longest CSV file drawn as input, in blocks

CsvFile(sniffable, blocks) ==
    [ext |-> "csv", broken |-> FALSE,
     doc |-> VDict(<< << K_sniffable, VBool(sniffable) >>,
                      << K_blocks,
                         VList([i \in 1..Len(blocks) |-> VList(blocks[i])]) >> >>)]

CsvFilesB ==
    { CsvFile(s, b) : s \in BOOLEAN,
                      b \in SeqsUpTo(BlockPool, MaxBlocks) \ { << >> } }

SourcesB ==
    JsonSources \cup CsvFilesB
    \cup { [ext |-> "json", broken |-> TRUE, doc |-> VNull],
           [ext |-> "csv", broken |-> TRUE, doc |-> VNull] }

K_data == << "d", "a", "t", "a" >>

-----------------------------------------------------------------------------
(* Variant B: main() as a state machine                                    *)

InitB ==
    /\ pc = "b_start"
    /\ rc = -1
    /\ source = NoSource
    /\ records = << >>
    /\ ri = 0
    /\ auto_i = 1
    /\ by_id = << >>
    /\ assigned = << >>
    /\ invoice_ids = << >>
    /\ chosen_id = << >>
    /\ template_html = << >>
    /\ context = VNull
    /\ final_html = << >>
    /\ invoice_choice = 0
    /\ pdf = "none"

\* lines 475-497: without data files or templates main returns, otherwise
\* the user picks a data file
ScanFilesB ==
    /\ pc = "b_start"
    /\ \E found \in BOOLEAN :
          IF found
          THEN \E src \in SourcesB : source' = src /\ pc' = "b_read" /\ rc' = rc
          ELSE source' = source /\ pc' = "done" /\ rc' = 0
    /\ UNCHANGED << records, ri, auto_i, by_id, assigned, invoice_ids, chosen_id,
                    template_html, context, final_html, invoice_choice, pdf >>

\* lines 501-510: the reader is picked by the extension; main returns on an
\* empty result
ReadDataB ==
    /\ pc = "b_read"
    /\ LET data == IF source.ext = "csv" THEN read_csv_file(source)
                   ELSE read_json_file(source)
       IN  /\ records' = data
           /\ IF data = << >>
              THEN pc' = "done" /\ rc' = 0
              ELSE pc' = "b_template" /\ rc' = rc
    /\ UNCHANGED << source, ri, auto_i, by_id, assigned, invoice_ids, chosen_id,
                    template_html, context, final_html, invoice_choice, pdf >>

\* lines 513-528: the user picks a template; read_template gives its text,
\* None when it cannot be read; main returns on None and on an empty text
ReadTemplateB ==
    /\ pc = "b_template"
    /\ \E t \in { Tpl_plain, << >> } :
          /\ template_html' = t
          /\ IF t = << >>
             THEN pc' = "done" /\ rc' = 0
             ELSE pc' = "b_ids" /\ rc' = rc
    /\ UNCHANGED << source, records, ri, auto_i, by_id, assigned, invoice_ids,
                    chosen_id, context, final_html, invoice_choice, pdf >>

\* line 531
GetInvoiceIdsB ==
    /\ pc = "b_ids"
    /\ invoice_ids' = get_invoice_ids(records)
    /\ pc' = "b_menu"
    /\ UNCHANGED << rc, source, records, ri, auto_i, by_id, assigned, chosen_id,
                    template_html, context, final_html, invoice_choice, pdf >>

\* lines 538-541: the user picks an entry of the menu
ChooseInvoiceB ==
    /\ pc = "b_menu"
    /\ \E i \in 1..Len(invoice_ids) :
          /\ invoice_choice' = i
          /\ chosen_id' = invoice_ids[i]
    /\ pc' = "b_find"
    /\ UNCHANGED << rc, source, records, ri, auto_i, by_id, assigned, invoice_ids,
                    template_html, context, final_html, pdf >>

\* lines 544-548: the item of the chosen identifier; main returns when it is
\* None or another falsy value
FindInvoiceB ==
    /\ pc = "b_find"
    /\ LET invoice_data == find_invoice_by_id(records, chosen_id)
       IN  /\ context' = invoice_data
           /\ IF ~Truthy(invoice_data)
              THEN pc' = "done" /\ rc' = 0
              ELSE pc' = "b_pdf" /\ rc' = rc
    /\ UNCHANGED << source, records, ri, auto_i, by_id, assigned, invoice_ids,
                    chosen_id, template_html, final_html, invoice_choice, pdf >>

\* lines 551-577: an item that is no dict is wrapped, the document is built
\* and handed to the document engine; generate_pdf tells success, and only
\* then is the result opened; main returns None either way.  The text of
\* the document (create_html_content) is not represented.
GeneratePdfB ==
    /\ pc = "b_pdf"
    /\ context' = IF IsDict(context) THEN context
                  ELSE VDict(<< << K_data, context >> >>)
    /\ \E ok \in BOOLEAN : pdf' = IF ok THEN "opened" ELSE "failed"
    /\ pc' = "done"
    /\ rc' = 0
    /\ UNCHANGED << source, records, ri, auto_i, by_id, assigned, invoice_ids,
                    chosen_id, template_html, final_html, invoice_choice >>

NextB ==
    \/ ScanFilesB
    \/ ReadDataB
    \/ ReadTemplateB
    \/ GetInvoiceIdsB
    \/ ChooseInvoiceB
    \/ FindInvoiceB
    \/ GeneratePdfB

SpecB == InitB /\ [][NextB]_vars

-----------------------------------------------------------------------------
(* Properties of the index build (variant A)                               *)

Resolved(r) == _extract_invoice_id(r) # VNull

\* the index loop has consumed every record
IndexBuilt == pc \in { "choose_id", "generate", "write" } \/ (pc = "done" /\ rc \in { 0, 4, 5 })

\* position of the last consumed record that was given the identifier id
LastWith(id) ==
    CHOOSE j \in 1..Len(assigned) :
        /\ assigned[j] = id
        /\ \A m \in (j + 1)..Len(assigned) : assigned[m] # id

\* C1: every identifier of the index maps to exactly one record, and an
\* identifier given to several records (by the resolver or as placeholder)
\* maps to the last of them in source order.
C1_LastWriteWins ==
    /\ \A i, j \in 1..Len(by_id) : by_id[i][1] = by_id[j][1] => i = j
    /\ \A j \in 1..Len(assigned) : DictHas(by_id, assigned[j])
    /\ \A i \in 1..Len(by_id) :
          /\ \E j \in 1..Len(assigned) : assigned[j] = by_id[i][1]
          /\ by_id[i][2] = records[LastWith(by_id[i][1])]

C1_Witness ==
    /\ IndexBuilt
    /\ \E i, j \in 1..Len(assigned) :
          /\ i < j
          /\ Resolved(records[i]) /\ Resolved(records[j])
          /\ assigned[i] = assigned[j]
          /\ records[i] # records[j]
          /\ DictGet(by_id, assigned[i]) = records[j]

\* number of records among the first j the resolver gave no identifier
UnresolvedUpTo(j) == Cardinality({ m \in 1..j : ~Resolved(records[m]) })

\* C2: the k-th record without a resolved identifier is given AUTO-k
\* (k from 1); a record with a resolved identifier keeps it and does not
\* advance the counter.
C2_AutoNumbering ==
    /\ \A j \in 1..Len(assigned) :
          IF Resolved(records[j])
          THEN assigned[j] = _extract_invoice_id(records[j]).s
          ELSE assigned[j] = << "A", "U", "T", "O", "-" >> \o IntToStr(UnresolvedUpTo(j))
    /\ auto_i = 1 + UnresolvedUpTo(Len(assigned))

C2_Witness ==
    /\ IndexBuilt
    /\ \E i, j \in 1..Len(assigned) :
          i < j /\ Resolved(records[i]) /\ ~Resolved(records[j])

\* C3: the placeholder given to a record without a resolved identifier is
\* unique in the load: no other record ends up with it, so the record is in
\* the index under its placeholder.
C3_AutoIdUnique ==
    IndexBuilt =>
        \A j \in 1..Len(assigned) :
            ~Resolved(records[j]) =>
                /\ \A m \in 1..Len(assigned) : m # j => assigned[m] # assigned[j]
                /\ DictGet(by_id, assigned[j]) = records[j]

\* C9: the context holds every field of the chosen record unchanged,
\* invoice_id and generated_at are added only where the record has no such
\* key, nothing else is added, and the record in the index stays as loaded.
C9_ContextAssembly ==
    (pc = "write" \/ (pc = "done" /\ rc \in { 0, 5 })) =>
        LET rec == records[LastWith(chosen_id)]
        IN  /\ \A i \in 1..Len(rec.d) :
                  /\ DictHas(context.d, rec.d[i][1])
                  /\ DictGet(context.d, rec.d[i][1]) = rec.d[i][2]
            /\ \A i, j \in 1..Len(context.d) :
                  context.d[i][1] = context.d[j][1] => i = j
            /\ Range(DictKeys(context.d))
                  = Range(DictKeys(rec.d)) \cup { K_invoice_id, K_generated_at }
            /\ ~DictHas(rec.d, K_invoice_id)
                  => DictGet(context.d, K_invoice_id) = VStr(chosen_id)
            /\ ~DictHas(rec.d, K_generated_at)
                  => \E now \in Timestamps :
                        DictGet(context.d, K_generated_at) = VStr(now)
            /\ DictGet(by_id, chosen_id) = rec

C9_Witness ==
    /\ pc = "write"
    /\ DictHas(DictGet(by_id, chosen_id).d, K_invoice_id)
    /\ DictGet(DictGet(by_id, chosen_id).d, K_invoice_id) # VStr(chosen_id)
    /\ ~DictHas(DictGet(by_id, chosen_id).d, K_generated_at)

\* the sequence of a wrapping-key document: an object one of whose fields
\* holds a sequence of objects
WrappedSeq(doc) ==
    ListItems(doc.d[CHOOSE i \in 1..Len(doc.d) : IsList(doc.d[i][2])][2])

IsWrappedShape(doc) ==
    /\ IsDict(doc)
    /\ \E i \in 1..Len(doc.d) : IsList(doc.d[i][2])
    /\ WrappedSeq(doc) # << >>
    /\ \A k \in 1..Len(WrappedSeq(doc)) : IsDict(WrappedSeq(doc)[k])

\* C10: loading a wrapping-key JSON document yields exactly the objects of
\* the wrapped sequence; {"items":[{"invoice":"Z1","total":100}]} resolves
\* to Z1.
C10_WrappedLoad ==
    (source.ext = "json" /\ ~source.broken /\ IsWrappedShape(source.doc)
        /\ pc \notin { "start", "load" }) =>
        /\ rc # 3
        /\ records = WrappedSeq(source.doc)
        /\ (IndexBuilt /\ WrappedSeq(source.doc) = << RecZ1 >>)
              => assigned = << << "Z", "1" >> >>

-----------------------------------------------------------------------------
(* Properties of identifier resolution                                     *)

\* position of the first field of record whose name equals cand without
\* regard to case, 0 if there is none
FieldLike(record, cand) ==
    IF \E i \in 1..Len(record.d) : Lower(record.d[i][1]) = Lower(cand)
    THEN CHOOSE i \in 1..Len(record.d) :
            /\ Lower(record.d[i][1]) = Lower(cand)
            /\ \A m \in 1..(i - 1) : Lower(record.d[m][1]) # Lower(cand)
    ELSE 0

\* a value that may serve as identifier: not null, not empty after trimming,
\* not the text nan
Usable(v) ==
    /\ v.t # "null"
    /\ Strip(PyStr(v)) # << >>
    /\ Lower(Strip(PyStr(v))) # << "n", "a", "n" >>

\* the candidates (by position) whose matched field holds a usable value
Winning(record, cands) ==
    { i \in 1..Len(cands) :
         /\ FieldLike(record, cands[i]) # 0
         /\ Usable(record.d[FieldLike(record, cands[i])][2]) }

\* the resolver as specified: the trimmed value of the first winning
\* candidate, null if there is none
ResolveAsSpecified(record, cands) ==
    IF Winning(record, cands) = { } THEN VNull
    ELSE LET i == CHOOSE w \in Winning(record, cands) :
                     \A o \in Winning(record, cands) : w <= o
         IN  VStr(Strip(PyStr(record.d[FieldLike(record, cands[i])][2])))

\* C4: the resolver yields the trimmed value of the first candidate, in
\* priority order, whose field (matched without regard to case) is present,
\* non-null, non-empty after trimming and not nan.
C4_ResolverAsSpecified ==
    pc \notin { "start", "load" } =>
        \A j \in 1..Len(records) :
            _extract_invoice_id(records[j])
                = ResolveAsSpecified(records[j], INVOICE_ID_CANDIDATES)

\* a record none of whose field names is a candidate
NoCandidateField(r) ==
    \A i \in 1..Len(possible_keys) : FieldLike(r, possible_keys[i]) = 0

\* C5: resolution depends on the record's contents only: equal records get
\* equal identifiers whatever their positions, and a record without a
\* candidate field gets no identifier taken from its position or from
\* another field.
C5_PositionIndependent ==
    pc = "b_menu" =>
        /\ \A i, j \in 1..Len(records) :
              (IsDict(records[i]) /\ records[i] = records[j])
                  => invoice_ids[i] = invoice_ids[j]
        /\ \A i \in 1..Len(records) :
              (IsDict(records[i]) /\ NoCandidateField(records[i])) =>
                  /\ invoice_ids[i] # IntToStr(i)
                  /\ \A f \in 1..Len(records[i].d) :
                        invoice_ids[i] # PyStr(records[i].d[f][2])

-----------------------------------------------------------------------------
(* Properties of the renderer                                              *)

HtmlEntities ==
    { << "&", << "&", "a", "m", "p", ";" >> >>,
      << "<", << "&", "l", "t", ";" >> >>,
      << ">", << "&", "g", "t", ";" >> >>,
      << "\"", << "&", "q", "u", "o", "t", ";" >> >>,
      << "'", << "&", "#", "x", "2", "7", ";" >> >> }

\* the HTML-escaped form of s
RECURSIVE HtmlEscaped(_)
HtmlEscaped(s) ==
    IF s = << >> THEN << >>
    ELSE (IF \E e \in HtmlEntities : e[1] = Head(s)
          THEN (CHOOSE e \in HtmlEntities : e[1] = Head(s))[2]
          ELSE << Head(s) >>) \o HtmlEscaped(Tail(s))

StartsWith(t, e) == Len(e) <= Len(t) /\ SubSeq(t, 1, Len(e)) = e

\* decoding of the five character references, one pass from the left
RECURSIVE HtmlUnescape(_)
HtmlUnescape(t) ==
    IF t = << >> THEN << >>
    ELSE IF \E e \in HtmlEntities : StartsWith(t, e[2])
         THEN LET e == CHOOSE x \in HtmlEntities : StartsWith(t, x[2])
              IN  << e[1] >> \o HtmlUnescape(SubSeq(t, Len(e[2]) + 1, Len(t)))
         ELSE << Head(t) >> \o HtmlUnescape(Tail(t))

\* the context {"k": s} for a literal string s
IsLiteralK(ctx) ==
    /\ IsDict(ctx)
    /\ Len(ctx.d) = 1
    /\ ctx.d[1][1] = K_k
    /\ ctx.d[1][2].t = "str"

\* C6 as stated: for every literal string s, "{{k}}" rendered against
\* {"k": s} is the HTML-escaped form of s, and unescaping it gives s back.
C6_EscapeRoundTripEveryString ==
    (pc = "r_done" /\ template_html = Tpl_k /\ IsLiteralK(context)) =>
        /\ final_html = HtmlEscaped(context.d[1][2].s)
        /\ HtmlUnescape(final_html) = context.d[1][2].s

\* C6 amended: the above for every s whose text is not nan (without regard
\* to case); for nan the output is empty.
C6_EscapeRoundTrip ==
    (pc = "r_done" /\ template_html = Tpl_k /\ IsLiteralK(context)) =>
        IF Lower(context.d[1][2].s) = << "n", "a", "n" >>
        THEN final_html = << >>
        ELSE /\ final_html = HtmlEscaped(context.d[1][2].s)
             /\ HtmlUnescape(final_html) = context.d[1][2].s

C6_Witness ==
    /\ pc = "r_done"
    /\ template_html = Tpl_k
    /\ IsLiteralK(context)
    /\ { "&", "'", "<" } \subseteq Range(context.d[1][2].s)
    /\ final_html # context.d[1][2].s

\* the template is one token and nothing else
SingleToken(t) == MatchAt(t, 1).ok /\ MatchAt(t, 1).next = Len(t) + 1

\* the segments of the token of a single token template
Segments(t) == Split(MatchAt(t, 1).key, << >>)

\* context[p1][p2]...[pn], null as soon as a lookup is impossible
RECURSIVE ValueAt(_, _, _)
ValueAt(ctx, parts, n) ==
    IF n = 0 THEN ctx
    ELSE LET parent == ValueAt(ctx, parts, n - 1)
         IN  IF IsDict(parent) /\ \E i \in 1..Len(parent.d) : parent.d[i][1] = parts[n]
             THEN parent.d[CHOOSE i \in 1..Len(parent.d) : parent.d[i][1] = parts[n]][2]
             ELSE VNull

\* the n-th segment is a key of the mapping the segments before it lead to
SegmentPresent(ctx, parts, n) ==
    /\ IsDict(ValueAt(ctx, parts, n - 1))
    /\ \E i \in 1..Len(ValueAt(ctx, parts, n - 1).d) :
          ValueAt(ctx, parts, n - 1).d[i][1] = parts[n]

\* every segment is found in a mapping
PathPresent(ctx, parts) == \A n \in 1..Len(parts) : SegmentPresent(ctx, parts, n)

\* the cases the claim lists for the empty replacement
EmptyCase(ctx, parts) ==
    \/ ~PathPresent(ctx, parts)
    \/ ValueAt(ctx, parts, Len(parts)).t = "null"
    \/ Lower(PyStr(ValueAt(ctx, parts, Len(parts)))) = << "n", "a", "n" >>

\* C7 as stated: the token is replaced by the empty string exactly in the
\* listed cases, and by the escaped text of the nested value otherwise.
C7_NestedLookupExactly ==
    (pc = "r_done" /\ SingleToken(template_html)) =>
        LET parts == Segments(template_html)
            text == PyStr(ValueAt(context, parts, Len(parts)))
        IN  /\ (final_html = << >>) <=> EmptyCase(context, parts)
            /\ ~EmptyCase(context, parts) => final_html = HtmlEscaped(text)

\* C7 amended: empty in the listed cases, the escaped text of the nested
\* value otherwise; the replacement is empty exactly in the listed cases or
\* when the text of the value is empty.
C7_NestedLookup ==
    (pc = "r_done" /\ SingleToken(template_html)) =>
        LET parts == Segments(template_html)
            text == PyStr(ValueAt(context, parts, Len(parts)))
        IN  /\ EmptyCase(context, parts) => final_html = << >>
            /\ ~EmptyCase(context, parts) => final_html = HtmlEscaped(text)
            /\ (final_html = << >>) <=> (EmptyCase(context, parts) \/ text = << >>)

C7_Witness ==
    /\ pc = "r_done"
    /\ template_html = Tpl_abc
    /\ PathPresent(context, Segments(template_html))
    /\ final_html = << "v", "&", "a", "m", "p", ";" >>

\* first segments of the tokens of a template
TokenRoots(t) ==
    { Split(MatchAt(t, p).key, << >>)[1] : p \in { q \in 1..Len(t) : MatchAt(t, q).ok } }

ContainsToken(s) == \E p \in 1..Len(s) : MatchAt(s, p).ok

ProbeValues == { VStr(<< "W" >>), VStr(<< "P", "<" >>), VNull }

\* C8: substituted text is not scanned again: the output does not depend on
\* a context entry no token of the template names, and a value that holds a
\* placeholder comes out as its escaped literal text.
C8_NoRescan ==
    pc = "r_done" =>
        \A i \in 1..Len(context.d) :
            /\ context.d[i][1] \notin TokenRoots(template_html) =>
                  \A w \in ProbeValues :
                      render_html_template(template_html,
                          VDict(DictSet(context.d, context.d[i][1], w))) = final_html
            /\ ( /\ SingleToken(template_html)
                 /\ Segments(template_html) = << context.d[i][1] >>
                 /\ context.d[i][2].t = "str"
                 /\ ContainsToken(context.d[i][2].s) )
                  => final_html = HtmlEscaped(context.d[i][2].s)

C8_Witness ==
    /\ pc = "r_done"
    /\ template_html = Tpl_k
    /\ context = VDict(<< << K_k, VStr(Placeholder_o) >>, << K_o, VStr(<< "W" >>) >> >>)
    /\ final_html = Placeholder_o


-----------------------------------------------------------------------------
(* The dictionary keyed by external identifier (variant A)                 *)

\* the document is a dictionary of objects: a dict without an "invoices"
\* list that has at least one object value
IsKeyedShape(doc) ==
    /\ IsDict(doc)
    /\ ~(DictHas(doc.d, K_invoices) /\ IsList(DictGet(doc.d, K_invoices)))
    /\ \E i \in 1..Len(doc.d) : IsDict(doc.d[i][2])

\* the (key, value) entries of the dictionary whose value is an object
RECURSIVE ObjectPairs(_)
ObjectPairs(pairs) ==
    IF pairs = << >> THEN << >>
    ELSE IF IsDict(Head(pairs)[2])
         THEN << Head(pairs) >> \o ObjectPairs(Tail(pairs))
         ELSE ObjectPairs(Tail(pairs))

\* the object carries an identifier field of its own: a field named by one
\* of the candidate names
HasIdField(v) ==
    \E i \in 1..Len(INVOICE_ID_CANDIDATES) : DictHas(v.d, INVOICE_ID_CANDIDATES[i])

\* C11: of a dictionary keyed by external identifier every object value
\* becomes a record, in order; an object with an identifier field of its own
\* (under any candidate name) is taken as it is and is given the identifier
\* its own fields resolve to, and an object without one gets the dictionary
\* key as its identifier field and as its identifier.
C11_KeyInjection ==
    ( /\ IndexBuilt
      /\ source.ext = "json"
      /\ ~source.broken
      /\ IsKeyedShape(source.doc) ) =>
        LET p == ObjectPairs(source.doc.d)
        IN  /\ Len(records) = Len(p)
            /\ Len(assigned) = Len(p)
            /\ \A j \in 1..Len(p) :
                  IF HasIdField(p[j][2])
                  THEN /\ records[j] = p[j][2]
                       /\ Resolved(p[j][2]) =>
                             assigned[j] = _extract_invoice_id(p[j][2]).s
                  ELSE /\ records[j] =
                             VDict(DictSet(p[j][2].d, K_invoice_id, VStr(p[j][1])))
                       /\ assigned[j] = p[j][1]


-----------------------------------------------------------------------------
(* Documents of no accepted shape                                          *)

\* the three accepted shapes, read generously: a sequence, an object with a
\* field that holds a sequence, an object with a value that is an object
IsSequenceShape(doc) == IsList(doc)
IsWrappingShape(doc) == IsDict(doc) /\ \E i \in 1..Len(doc.d) : IsList(doc.d[i][2])
IsDictOfObjectsShape(doc) == IsDict(doc) /\ \E i \in 1..Len(doc.d) : IsDict(doc.d[i][2])

NoAcceptedShape(doc) ==
    ~IsSequenceShape(doc) /\ ~IsWrappingShape(doc) /\ ~IsDictOfObjectsShape(doc)

\* the loader has run
Loaded == pc \notin { "start", "load", "b_start", "b_read" }

\* C12: loading a JSON document of none of the three accepted shapes fails:
\* the run ends at the load step and no record list, empty or not, comes
\* out of the loader.
C12_UnknownShapeFails ==
    ( /\ Loaded
      /\ source.ext = "json"
      /\ ~source.broken
      /\ NoAcceptedShape(source.doc) ) =>
        /\ pc = "done"
        /\ records = << >>
        /\ invoice_ids = << >>


-----------------------------------------------------------------------------
(* Outcome of a pipeline run                                               *)

\* the return values of variant A's main for the four named failures
FailureCodes ==
    [no_input_files |-> 2, data_read_error |-> 3, no_records |-> 4, render_error |-> 5]

\* the data file cannot be read, cannot be parsed or has no accepted shape
LoaderFailed ==
    /\ source.ext \in { "json", "csv" }
    /\ \/ source.broken
       \/ source.ext = "json" /\ ~_load_json_records(source.doc).ok

\* how the run that has ended went
OutcomeKind ==
    IF source = NoSource THEN "no_input_files"
    ELSE IF LoaderFailed THEN "data_read_error"
    ELSE IF records = << >> THEN "no_records"
    ELSE IF pdf = "failed" THEN "render_error"
    ELSE IF pdf = "opened" THEN "success"
    ELSE "other"

\* C13: a run has an outcome code exactly when it has ended and takes no
\* step after that; the code is 0 only when the document engine succeeded;
\* the four named failures have pairwise distinct non-zero codes; and after
\* a failure no later step has happened: nothing is indexed after a failed
\* load, nothing is chosen or rendered without records, and the document
\* engine has run and the result has been opened only on the way to 0.
C13_ExitCodes ==
    /\ \A a, b \in DOMAIN FailureCodes :
          FailureCodes[a] # 0 /\ (a # b => FailureCodes[a] # FailureCodes[b])
    /\ (pc = "done") <=> (rc # -1)
    /\ pc = "done" =>
          /\ ~ENABLED Next
          /\ ~ENABLED NextB
          /\ rc = 0 => pdf = "opened"
          /\ OutcomeKind \in DOMAIN FailureCodes => rc = FailureCodes[OutcomeKind]
          /\ OutcomeKind = "no_input_files" =>
                records = << >> /\ by_id = << >> /\ final_html = << >> /\ pdf = "none"
          /\ OutcomeKind = "data_read_error" =>
                /\ records = << >> /\ by_id = << >> /\ assigned = << >>
                /\ invoice_ids = << >> /\ final_html = << >> /\ pdf = "none"
          /\ OutcomeKind = "no_records" =>
                chosen_id = << >> /\ final_html = << >> /\ pdf = "none"
          /\ pdf = "opened" => rc = 0


-----------------------------------------------------------------------------
(* The CSV reader of the standard library (variant B)                      *)

\* the data rows of the file in file order
RECURSIVE Flatten(_)
Flatten(blocks) ==
    IF blocks = << >> THEN << >> ELSE Head(blocks) \o Flatten(Tail(blocks))

\* the encoding reads the whole file without a decoding error
ReadsWholeFile(src, enc) ==
    \A i \in 1..Len(CsvBlocks(src)) : BlockDecodes(CsvBlocks(src)[i], enc)

\* position in the list of the first encoding that reads the whole file
FirstReadable(src) ==
    CHOOSE i \in 1..Len(encodings) :
        /\ ReadsWholeFile(src, encodings[i])
        /\ \A m \in 1..(i - 1) : ~ReadsWholeFile(src, encodings[m])

\* one record per data row, as the encoding parses it
ParsedRows(src, enc) ==
    [i \in 1..Len(Flatten(CsvBlocks(src))) |->
        cleaned_row(Decoded(Flatten(CsvBlocks(src))[i], enc))]

\* C14: the result of the CSV fallback reader is exactly one record per data
\* row, as parsed by the first encoding of the list (UTF-8 with BOM, UTF-8,
\* the Cyrillic code pages) that reads the whole file without a decoding
\* error; rows read during a failed attempt are not part of it.
C14_CsvFallback ==
    ( /\ Loaded
      /\ source.ext = "csv"
      /\ ~source.broken
      /\ CsvSniffable(source)
      /\ \E i \in 1..Len(encodings) : ReadsWholeFile(source, encodings[i]) ) =>
        records = ParsedRows(source, encodings[FirstReadable(source)])


-----------------------------------------------------------------------------
(* The identifier list offered for selection (variant A)                   *)

\* C15: the identifier list holds every key of the built index exactly once
\* and nothing else, and it is ordered non-decreasingly by the lower-cased
\* identifier text.
C15_SortedIds ==
    (IndexBuilt \/ (pc = "done" /\ rc = 1)) =>
        /\ \A k \in 1..Len(by_id) :
              Cardinality({ i \in 1..Len(invoice_ids) : invoice_ids[i] = by_id[k][1] }) = 1
        /\ \A i \in 1..Len(invoice_ids) : DictHas(by_id, invoice_ids[i])
        /\ \A i, j \in 1..Len(invoice_ids) :
              i < j => ~StrLess(Lower(invoice_ids[j]), Lower(invoice_ids[i]))

\* a run whose index order and case-sensitive order both differ from the
\* order of the list: "B" was indexed before "a"
C15_Witness ==
    /\ pc = "choose_id"
    /\ DictKeys(by_id) = << << "B" >>, << "a" >> >>
    /\ invoice_ids = << << "a" >>, << "B" >> >>


-----------------------------------------------------------------------------
(* The list based lookup (variant B)                                       *)

\* the menu has been built and shown
MenuBuilt == pc = "b_menu"

\* find_invoice_by_id has returned and its result is still in context
Found == invoice_choice # 0 /\ pc \in { "b_pdf", "done" } /\ pdf = "none"

\* first position of the chosen identifier in the menu
FirstWith(id) ==
    CHOOSE j \in 1..Len(invoice_ids) :
        /\ invoice_ids[j] = id
        /\ \A m \in 1..(j - 1) : invoice_ids[m] # id

\* C16: the menu holds one identifier per item, in source order, and the
\* item found for a chosen menu entry is the first item in source order
\* whose identifier is the chosen one: an entry that repeats an earlier
\* identifier yields the earlier item, never the later one.
C16_FirstWins ==
    /\ MenuBuilt =>
          /\ Len(invoice_ids) = Len(records)
          /\ \A i \in 1..Len(records) : invoice_ids[i] = ItemId(records[i], i - 1)
    /\ Found =>
          /\ chosen_id = invoice_ids[invoice_choice]
          /\ FirstWith(chosen_id) <= invoice_choice
          /\ context = records[FirstWith(chosen_id)]
          /\ \A j \in 1..Len(records) :
                (j # FirstWith(chosen_id) /\ records[j] # records[FirstWith(chosen_id)])
                   => context # records[j]

\* the second of two items with the identifier "A" is picked from the menu
\* and the first one is found
C16_Witness ==
    /\ Found
    /\ records = << RecA5, RecA9 >>
    /\ invoice_ids = << << "A" >>, << "A" >> >>
    /\ invoice_choice = 2
    /\ context = RecA5

=============================================================================
